---- MODULE Spec2Model ----
(***************************************************************************)
(* Model of esy/client.py: the operation invoker (ESICallableOperation),   *)
(* the page iterator (ESIPageGenerator), the transport adapter             *)
(* (ESIRequestsClient), the cache property of the client (ESIClient) and   *)
(* the download of the API description (get_client, get_swagger_spec).     *)
(*                                                                         *)
(* Strings are sequences of small naturals (character codes).  The remote  *)
(* server and the bravado library are the environment: every response the  *)
(* server can send is an input of the action that issues a request.        *)
(***************************************************************************)
EXTENDS Integers, Sequences, FiniteSets, TLC

VARIABLES
    hashseed,    \* the interpreter's string hash seed, fixed per process
    env,         \* the surroundings of the run: the callers' tokens, the server
    http_cache,  \* ESIRequestsClient.cache: 0 (None) or a cache object id
    caches,      \* contents of the cache objects: id -> (key -> entry)
    it,          \* the page iterator held by the caller, or NoIter
    sent,        \* number of network requests issued so far
    last,        \* what the last handler did and how it ended
    yielded,     \* the results the iterator has returned: page asked, page count read
    ka, kb, kout \* inputs and outputs of the cache key computation

vars == <<hashseed, env, http_cache, caches, it, sent, last, yielded, ka, kb, kout>>

----------------------------------------------------------------------------
(* Bounds *)

MaxSeed == 1
MaxPages == 2
MaxRequests == 2
HashBits == 4

Seeds == 0..MaxSeed
CacheIds == {1}
HashModulus == 2 ^ HashBits
IntHashModulus == 2 ^ (HashBits - 1) - 1

NoIter == [none |-> TRUE]
NoResp == [none |-> TRUE]
None == "None"

----------------------------------------------------------------------------
(* Python's hash() of the key tuple, at reduced width *)

RECURSIVE StrHashFrom(_, _, _, _)
StrHashFrom(seed, h, s, i) ==
    IF i > Len(s) THEN h
    ELSE StrHashFrom(seed, ((h + s[i] + seed) * 5 + 1) % HashModulus, s, i + 1)

\* hash(str): keyed by the per-process seed
StrHash(seed, s) == StrHashFrom(seed, (seed * 3 + Len(s)) % HashModulus, s, 1)

\* hash(int) for the non-negative ints the page counter takes
IntHash(n) == n % IntHashModulus

RECURSIVE TupleHashFrom(_, _, _)
TupleHashFrom(acc, lanes, i) ==
    IF i > Len(lanes) THEN acc
    ELSE TupleHashFrom(((acc + lanes[i] * 7) * 11) % HashModulus, lanes, i + 1)

\* hash(tuple): every lane is mixed in by an odd multiplier modulo 2^width
TupleHash(lanes) == (TupleHashFrom(5, lanes, 1) + Len(lanes)) % HashModulus

----------------------------------------------------------------------------
(* Requests *)

\* str(dict) of the request's query parameters
StrOfParams(params) ==
    IF params.page = 0 THEN <<1, params.q>> ELSE <<1, params.q, 2, params.page>>

\* str(None) for the request's auth, str(dict) of the request's own headers
StrOfAuth(auth) == IF auth = None THEN <<3>> ELSE <<3, 1>>
StrOfHeaders(headers) == <<4, headers>>
StrOfMethod(method) == IF method = "GET" THEN <<5>> ELSE <<6>>

\* the tuple hashed by _get_cache_key
KeyTuple(self) ==
    [url |-> self.request.url,
     params |-> StrOfParams(self.request.params),
     auth |-> StrOfAuth(self.request.auth),
     headers |-> StrOfHeaders(self.request.headers),
     method |-> StrOfMethod(self.request.method),
     page |-> self.page]

\* a key that also depends on the iterator's page count
get_cache_key_with_num_pages(seed, self) ==
    LET t == KeyTuple(self)
    IN TupleHash(<<StrHash(seed, t.url), StrHash(seed, t.params),
                   StrHash(seed, t.auth), StrHash(seed, t.headers),
                   StrHash(seed, t.method), IntHash(self.page + self.num_pages)>>)

get_cache_key(seed, self) ==
    LET t == KeyTuple(self)
    IN TupleHash(<<StrHash(seed, t.url), StrHash(seed, t.params),
                   StrHash(seed, t.auth), StrHash(seed, t.headers),
                   StrHash(seed, t.method), IntHash(t.page)>>)

----------------------------------------------------------------------------
(* The operations of the downloaded API description *)

Operations ==
    {[operation_id |-> 1, security_specs |-> {{"evesso"}}, params |-> {"q", "page"}],
     [operation_id |-> 2, security_specs |-> {{"evesso"}}, params |-> {"q"}]}

\* ESICallableOperation.__init__
require_authorization(operation) == \E spec \in operation.security_specs : "evesso" \in spec
paginated(operation) == "page" \in operation.params

\* keyword arguments of a call: the names given (each with the value 1)
KwargsInputs == {{"q"}, {}}

\* bearer tokens a caller can pass as _token
Tokens == {None, "A"}

\* bravado's construct_request: an unknown or a missing required parameter
\* raises, otherwise the request parameters are built
UrlOf(operation) == <<7, operation.operation_id>>

construct_request(operation, op_kwargs) ==
    IF (\E name \in op_kwargs : name \notin operation.params) \/ "q" \notin op_kwargs
    THEN [exc |-> "SwaggerMappingError"]
    ELSE [exc |-> "none",
          request |-> [url |-> UrlOf(operation),
                       params |-> [q |-> 1, page |-> 0],
                       auth |-> None,
                       headers |-> 0,
                       method |-> "GET"]]

----------------------------------------------------------------------------
(* The server's responses *)

NoText == <<>>
ValidExpires == <<20, 1>>

XPagesTexts == {<<n>> : n \in 0..MaxPages} \cup {<<10>>}
ExpiresTexts == {ValidExpires}

HeaderSets ==
    {xp \cup ex : xp \in {{}} \cup {{<<"x-pages", t>>} : t \in XPagesTexts},
                  ex \in {{}} \cup {{<<"expires", t>>} : t \in ExpiresTexts}}

\* the payload of a 200 response: the server's data carries its version
Payload(version) == [kind |-> "payload", error |-> "", value |-> version]

ErrorBodies ==
    {[kind |-> "obj", error |-> m, value |-> 0] : m \in {"X not found"}}
    \cup {[kind |-> k, error |-> "", value |-> 0] : k \in {"obj_noerr", "nonobj", "notjson"}}

Responses(version) ==
    {[status |-> 200, headers |-> h, text |-> Payload(version)] : h \in HeaderSets}
    \cup {[status |-> 404, headers |-> {}, text |-> b] : b \in ErrorBodies}
    \cup {[status |-> 403, headers |-> {}, text |-> b] :
            b \in {e \in ErrorBodies : e.error \in {"", "X not found"} /\ e.kind \in {"obj", "notjson"}}}
    \cup {[status |-> s, headers |-> {}, text |-> [kind |-> "notjson", error |-> "", value |-> 0]] :
            s \in {400, 500}}

\* the run's surroundings: which tokens the callers hold, and whether the
\* server may answer anything or answers every (request, page) the same way
\* each time, with a valid Expires header and one X-Pages header (or none)
AnyServer == [tokens |-> Tokens, server |-> "any", xpages |-> NoText]

SteadyTokens == {"", "A", "B"}

SteadyServers ==
    {[tokens |-> SteadyTokens, server |-> "steady", xpages |-> t] :
        t \in {NoText} \cup XPagesTexts}

\* the steady server's answer to the request for a page of a URL (page 0: the
\* request has no page parameter)
SteadyResponse(xpages, url, page) ==
    [status |-> 200,
     headers |-> (IF xpages = NoText THEN {} ELSE {<<"x-pages", xpages>>})
                 \cup {<<"expires", ValidExpires>>},
     text |-> Payload(url[2] * 10 + page)]

\* response.headers.get(name, default)
HeaderGet(headers, name, default) ==
    IF \E h \in headers : h[1] = name
    THEN (CHOOSE h \in headers : h[1] = name)[2]
    ELSE default

\* int(text): digits are the codes 0..9
RECURSIVE DecimalValue(_)
DecimalValue(text) ==
    IF text = <<>> THEN 0
    ELSE DecimalValue(SubSeq(text, 1, Len(text) - 1)) * 10 + text[Len(text)]

int(text) ==
    IF text # <<>> /\ \A i \in 1..Len(text) : text[i] \in 0..9
    THEN [exc |-> "none", value |-> DecimalValue(text)]
    ELSE [exc |-> "ValueError", value |-> 0]

\* a parsedate that gives a date for every text
parsedate_defaulting(text) ==
    IF text # NoText /\ text[1] = 20
    THEN [exc |-> "none", value |-> text[2]]
    ELSE [exc |-> "none", value |-> 0]

\* parsedate(text)[:7]: None is not subscriptable, a date text gives its fields
parsedate(text) ==
    IF text # NoText /\ text[1] = 20
    THEN [exc |-> "none", value |-> text[2]]
    ELSE [exc |-> "TypeError", value |-> 0]

\* the bravado exception raised by HttpFuture.result() for a status
HTTPErrorOf(status) ==
    CASE status = 400 -> "HTTPBadRequest"
      [] status = 403 -> "HTTPForbidden"
      [] status = 404 -> "HTTPNotFound"
      [] status = 500 -> "HTTPInternalServerError"
      [] OTHER -> "HTTPBadGateway"

StrOfHTTPError(status) ==
    CASE status = 400 -> "400 Bad Request"
      [] status = 403 -> "403 Forbidden"
      [] status = 404 -> "404 Not Found"
      [] status = 500 -> "500 Internal Server Error"
      [] OTHER -> "502 Bad Gateway"

----------------------------------------------------------------------------
(* ESIPageGenerator *)

\* an iterator that is never given the adapter's cache
NewIterator_uncached(operation, request, session, cache) ==
    [operation |-> operation.operation_id,
     request |-> request,
     session |-> session,
     page |-> 1,
     num_pages |-> 1,
     stop |-> FALSE,
     cache |-> 0]

\* ESIPageGenerator.__init__
NewIterator(operation, request, session, cache) ==
    [operation |-> operation.operation_id,
     request |-> request,
     session |-> session,
     page |-> 1,
     num_pages |-> 1,
     stop |-> FALSE,
     cache |-> cache]

EmptyCache == <<>>

\* a _send that asks the server again when the first answer is an error
send_retrying(resp) ==
    IF resp.status = 200
    THEN [exc |-> "none", msg |-> "", data |-> resp.text.value, net |-> 1]
    ELSE [exc |-> HTTPErrorOf(resp.status), msg |-> StrOfHTTPError(resp.status),
          data |-> 0, net |-> 2]

\* ESIPageGenerator._send, HttpFuture(...).result(): one network request; a
\* non-2xx status raises
send(resp) ==
    IF resp.status = 200
    THEN [exc |-> "none", msg |-> "", data |-> resp.text.value, net |-> 1]
    ELSE [exc |-> HTTPErrorOf(resp.status), msg |-> StrOfHTTPError(resp.status),
          data |-> 0, net |-> 1]

\* a cache that stores every page as the only page
cache_set_one_page(store, key, entry) ==
    [k \in DOMAIN store \cup {key} |->
        IF k = key THEN [entry EXCEPT !.num_pages = 1] ELSE store[k]]

\* self.cache.set(key, value, expires): the cache maps the key to the value
cache_set(store, key, entry) ==
    [k \in DOMAIN store \cup {key} |-> IF k = key THEN entry ELSE store[k]]

\* a lookup that never finds the key
cache_hit_never(cache, store, key) == FALSE

\* self.cache is not None and key in self.cache
cache_hit(cache, store, key) == cache # 0 /\ key \in DOMAIN store

\* ESIPageGenerator.result: store is the content of self.cache (unused when
\* self.cache is None), resp the response the server gives if it is asked
result(seed, self, store, resp) ==
    LET key == get_cache_key(seed, self)
        sending == send(resp)
        failed(exc, msg, num_pages) ==
            [exc |-> exc, msg |-> msg, data |-> 0, num_pages |-> num_pages,
             store |-> store, net |-> sending.net, hit |-> FALSE]
        pages == int(HeaderGet(resp.headers, "x-pages", <<1>>))
        expires == parsedate(HeaderGet(resp.headers, "expires", NoText))
    IN  IF cache_hit(self.cache, store, key)
        THEN [exc |-> "none", msg |-> "", data |-> store[key].data,
              num_pages |-> store[key].num_pages, store |-> store,
              net |-> 0, hit |-> TRUE]
        ELSE IF sending.exc # "none"
        THEN failed(sending.exc, sending.msg, self.num_pages)
        ELSE IF pages.exc # "none"
        THEN failed(pages.exc, "invalid literal for int()", self.num_pages)
        ELSE IF self.cache # 0 /\ expires.exc # "none"
        THEN failed(expires.exc, "'NoneType' object is not subscriptable", pages.value)
        ELSE [exc |-> "none", msg |-> "", data |-> sending.data,
              num_pages |-> pages.value,
              store |-> IF self.cache # 0
                        THEN cache_set(store, key,
                                       [data |-> sending.data,
                                        num_pages |-> pages.value,
                                        expires |-> expires.value])
                        ELSE store,
              net |-> sending.net, hit |-> FALSE]

\* str(ex) of the ESINotFound raised with one message argument inside the try
ExcStr(message) == message

\* the except HTTPNotFound branch of ESIPageGenerator.get
NotFoundMessage(text) ==
    IF text.kind = "notjson" THEN "Expecting value: line 1 column 1 (char 0)"
    ELSE IF text.kind = "nonobj" THEN "'list' object has no attribute 'get'"
    ELSE IF text.kind = "obj_noerr" THEN ExcStr("Not found")
    ELSE ExcStr(text.error)

\* whether result() will ask the server: no cache, or a cache without the key
WillSend(seed, self, store) ==
    ~cache_hit(self.cache, store, get_cache_key(seed, self))

\* ESIPageGenerator.get
get(seed, self, store, resp) ==
    LET r == result(seed, self, store, resp)
    IN  IF r.exc \in {"HTTPInternalServerError", "HTTPBadRequest"}
        THEN [r EXCEPT !.exc = "ESIError"]
        ELSE IF r.exc = "HTTPNotFound"
        THEN [r EXCEPT !.exc = "ESINotFound", !.msg = NotFoundMessage(resp.text)]
        ELSE IF r.exc = "HTTPForbidden"
        THEN [r EXCEPT !.exc = "ESIForbidden", !.msg = "Access denied"]
        ELSE r

----------------------------------------------------------------------------
(* State *)

Idle ==
    [op |-> "none", operation |-> 0, token |-> None, kwargs |-> {},
     outcome |-> "none", exc |-> "none", msg |-> "", data |-> 0,
     net |-> 0, fetches |-> 0, hit |-> FALSE, resp |-> NoResp,
     authorization |-> ""]

StoreOf(cache) == IF cache = 0 THEN EmptyCache ELSE caches[cache]

\* one client in one process (string hash seed 0); SpecKey varies the seed
Init ==
    /\ hashseed = 0
    /\ env = AnyServer
    /\ http_cache \in {0} \cup CacheIds
    /\ caches = [c \in CacheIds |-> EmptyCache]
    /\ it = NoIter
    /\ sent = 0
    /\ last = Idle
    /\ yielded = <<>>
    /\ ka = NoIter
    /\ kb = NoIter
    /\ kout = <<>>

\* what one handler run leaves in last
Ran(op, operation, token, kwargs, outcome, r, fetches, resp, authorization) ==
    [op |-> op, operation |-> operation, token |-> token, kwargs |-> kwargs,
     outcome |-> outcome, exc |-> r.exc, msg |-> r.msg, data |-> r.data,
     net |-> r.net, fetches |-> fetches, hit |-> r.hit,
     resp |-> IF r.net >= 1 THEN resp ELSE NoResp,
     authorization |-> IF r.net >= 1 THEN authorization ELSE ""]

Raised(exc, msg) ==
    [exc |-> exc, msg |-> msg, data |-> 0, net |-> 0, hit |-> FALSE]

Returned == [exc |-> "none", msg |-> "", data |-> 0, net |-> 0, hit |-> FALSE]

\* the session headers set up by ESIRequestsClient.request
Session(authorization_token) ==
    [Authorization |-> IF authorization_token \notin {None, ""}
                       THEN "Bearer " \o authorization_token ELSE "",
     UserAgent |-> "esy"]

----------------------------------------------------------------------------
(* ESIRequestsClient.request, reached from ESICallableOperation.__call__ *)

\* a test that takes every operation for a single-page one
declares_page_never(operation) == FALSE

\* operation is not None and 'page' in operation.params
declares_page(operation) == "page" \in operation.params

request(request_params, operation, authorization_token, op_kwargs, resp) ==
    LET session == Session(authorization_token)
        self == NewIterator(operation, request_params, session, http_cache)
    IN  IF declares_page(operation)
        THEN /\ it' = self
             /\ yielded' = <<>>
             /\ last' = Ran("call", operation.operation_id, authorization_token,
                            op_kwargs, "iterator", Returned, 0, resp, "")
             /\ UNCHANGED <<caches, sent>>
        ELSE \E g \in {get(hashseed, self, StoreOf(http_cache), resp)} :
             /\ g.net >= 1 => sent < MaxRequests
             /\ sent' = sent + g.net
             /\ caches' = IF http_cache = 0 THEN caches
                          ELSE [caches EXCEPT ![http_cache] = g.store]
             /\ last' = Ran("call", operation.operation_id, authorization_token,
                            op_kwargs, IF g.exc = "none" THEN "value" ELSE "raise",
                            g, 1, resp, session.Authorization)
             /\ UNCHANGED <<it, yielded>>

\* ESICallableOperation.__call__
call(operation, token, op_kwargs, resp) ==
    LET built == construct_request(operation, op_kwargs)
    IN  /\ IF built.exc # "none"
           THEN /\ last' = Ran("call", operation.operation_id, token, op_kwargs, "raise",
                               Raised(built.exc, "bad parameters"), 0, resp, "")
                /\ UNCHANGED <<caches, it, sent, yielded>>
           ELSE IF require_authorization(operation) /\ token = None
           THEN /\ last' = Ran("call", operation.operation_id, token, op_kwargs, "raise",
                               Raised("ESIAuthorizationError",
                                      "Missing required authorization token"),
                               0, resp, "")
                /\ UNCHANGED <<caches, it, sent, yielded>>
           ELSE request(built.request, operation, token, op_kwargs, resp)
        /\ UNCHANGED <<hashseed, env, http_cache, ka, kb, kout>>

\* a stop test that ends the iteration after the first result
stop_after_first(page, num_pages) == TRUE

\* a stop test that is off by one
stop_after_early(page, num_pages) == page >= num_pages

\* self.page > self.num_pages, with self.page already incremented
stop_after(page, num_pages) == page > num_pages

\* an advance that moves on to the following page also when the fetch fails
next_skipping(resp) ==
    /\ it # NoIter
    /\ IF it.stop
       THEN /\ last' = Ran("next", it.operation, None, {}, "raise",
                           Raised("StopIteration", ""), 0, resp, "")
            /\ UNCHANGED <<caches, it, sent, yielded>>
       ELSE LET self == [it EXCEPT !.request.params.page = it.page]
                page == self.page + 1
            IN  \E r \in {result(hashseed, self, StoreOf(it.cache), resp)} :
                /\ r.net >= 1 => sent < MaxRequests
                /\ sent' = sent + r.net
                /\ caches' = IF it.cache = 0 THEN caches
                             ELSE [caches EXCEPT ![it.cache] = r.store]
                /\ it' = [self EXCEPT !.num_pages = r.num_pages,
                                      !.page = page,
                                      !.stop = stop_after(page, r.num_pages)]
                /\ yielded' = IF r.exc # "none" THEN yielded
                              ELSE Append(yielded, [page |-> self.request.params.page,
                                                    num_pages |-> r.num_pages])
                /\ last' = Ran("next", it.operation, None, {},
                               IF r.exc = "none" THEN "value" ELSE "raise",
                               r, 1, resp, it.session.Authorization)
    /\ UNCHANGED <<hashseed, env, http_cache, ka, kb, kout>>

\* ESIPageGenerator.__next__
next(resp) ==
    /\ it # NoIter
    /\ IF it.stop
       THEN /\ last' = Ran("next", it.operation, None, {}, "raise",
                           Raised("StopIteration", ""), 0, resp, "")
            /\ UNCHANGED <<caches, it, sent, yielded>>
       ELSE LET self == [it EXCEPT !.request.params.page = it.page]
                page == self.page + 1
            IN  \E r \in {result(hashseed, self, StoreOf(it.cache), resp)} :
                /\ r.net >= 1 => sent < MaxRequests
                /\ sent' = sent + r.net
                /\ caches' = IF it.cache = 0 THEN caches
                             ELSE [caches EXCEPT ![it.cache] = r.store]
                /\ IF r.exc # "none"
                   THEN /\ it' = [self EXCEPT !.num_pages = r.num_pages]
                        /\ UNCHANGED yielded
                   ELSE /\ it' = [self EXCEPT !.num_pages = r.num_pages,
                                              !.page = page,
                                              !.stop = stop_after(page, r.num_pages)]
                        /\ yielded' = Append(yielded, [page |-> self.request.params.page,
                                                       num_pages |-> r.num_pages])
                /\ last' = Ran("next", it.operation, None, {},
                               IF r.exc = "none" THEN "value" ELSE "raise",
                               r, 1, resp, it.session.Authorization)
    /\ UNCHANGED <<hashseed, env, http_cache, ka, kb, kout>>

\* ESIClient.cache getter
client_cache == http_cache

\* ESIClient.cache setter
set_cache(cache) ==
    /\ http_cache # cache
    /\ http_cache' = cache
    /\ last' = [Idle EXCEPT !.op = "set_cache", !.data = cache]
    /\ UNCHANGED <<hashseed, env, caches, it, sent, yielded, ka, kb, kout>>

\* the cache drops an entry (its expiry time has passed)
expire(cache, key) ==
    /\ key \in DOMAIN caches[cache]
    /\ caches' = [caches EXCEPT
                    ![cache] = [k \in DOMAIN caches[cache] \ {key} |-> caches[cache][k]]]
    /\ last' = [Idle EXCEPT !.op = "expire"]
    /\ UNCHANGED <<hashseed, env, http_cache, it, sent, yielded, ka, kb, kout>>

\* the responses the server can give to the request a handler issues, if any
Answers(sends, url, page) ==
    IF ~sends THEN {NoResp}
    ELSE IF env.server = "steady" THEN {SteadyResponse(env.xpages, url, page)}
    ELSE Responses(sent + 1)

CallSends(operation, token, op_kwargs) ==
    LET built == construct_request(operation, op_kwargs)
    IN  /\ built.exc = "none"
        /\ ~(require_authorization(operation) /\ token = None)
        /\ ~declares_page(operation)
        /\ WillSend(hashseed,
                    NewIterator(operation, built.request, Session(token), http_cache),
                    StoreOf(http_cache))

AdvanceSends ==
    /\ it # NoIter
    /\ ~it.stop
    /\ WillSend(hashseed, [it EXCEPT !.request.params.page = it.page], StoreOf(it.cache))

\* the calls made: every operation with every token, and every operation
\* without its required parameter
CallInputs ==
    {<<operation, token, {"q"}>> : operation \in Operations, token \in env.tokens}
    \cup {<<operation, None, op_kwargs>> :
            operation \in Operations, op_kwargs \in KwargsInputs}

Call == \E input \in CallInputs :
            \E resp \in Answers(CallSends(input[1], input[2], input[3]),
                                 UrlOf(input[1]), 0) :
                call(input[1], input[2], input[3], resp)
Advance ==
    \E resp \in Answers(AdvanceSends,
                         IF it = NoIter THEN <<>> ELSE it.request.url,
                         IF it = NoIter THEN 0 ELSE it.page) : next(resp)
SetCache == \E cache \in {0} \cup CacheIds : set_cache(cache)
Expire == \E cache \in CacheIds : \E key \in DOMAIN caches[cache] : expire(cache, key)

Next == Call \/ Advance \/ SetCache \/ Expire

Spec == Init /\ [][Next]_vars

\* the same client against a steady server, with callers holding other tokens
SteadyInit ==
    /\ hashseed = 0
    /\ env \in SteadyServers
    /\ http_cache \in {0} \cup CacheIds
    /\ caches = [c \in CacheIds |-> EmptyCache]
    /\ it = NoIter
    /\ sent = 0
    /\ last = Idle
    /\ yielded = <<>>
    /\ ka = NoIter
    /\ kb = NoIter
    /\ kout = <<>>

SpecSteady == SteadyInit /\ [][Next]_vars

----------------------------------------------------------------------------
(* ESIClient.get_client and ESIClient.get_swagger_spec: the download of the
   API description, before there is a client *)

Endpoints == {"latest", "legacy"}
Datasources == {"tranquility", "singularity"}

\* ESIClient._generate_esi_endpoint
generate_esi_endpoint(endpoint, datasource) == endpoint \o "?datasource=" \o datasource

DownloadStatuses == {200, 204, 300, 304, 400, 404, 500, 503}

\* what the download meets: no response at all, or a response with a status
\* and a body (the JSON description, other text, or nothing; 204 and 304
\* carry no body)
Downloads ==
    {[net |-> e, status |-> 0, body |-> "empty"] : e \in {"ConnectionError", "Timeout"}}
    \cup {d \in [net : {"ok"}, status : DownloadStatuses,
                  body : {"spec", "notjson", "empty"}] :
            d.status \in {204, 304} => d.body = "empty"}

\* requests.get(endpoint)
requests_get(url, download) ==
    IF download.net # "ok"
    THEN [exc |-> download.net, msg |-> download.net \o " for url: " \o url]
    ELSE [exc |-> "none", msg |-> ""]

\* resp.raise_for_status(): raises for the statuses 400..599 only
raise_for_status(url, download) ==
    IF download.status \in 400..499
    THEN [exc |-> "HTTPError", msg |-> "Client Error for url: " \o url]
    ELSE IF download.status \in 500..599
    THEN [exc |-> "HTTPError", msg |-> "Server Error for url: " \o url]
    ELSE [exc |-> "none", msg |-> ""]

\* json.loads(resp.text)
json_loads(body) ==
    IF body = "spec"
    THEN [exc |-> "none", msg |-> ""]
    ELSE [exc |-> "JSONDecodeError", msg |-> "Expecting value: line 1 column 1 (char 0)"]

\* ESIClient.get_swagger_spec: every exception of the three steps is turned
\* into ESIError(str(ex))
get_swagger_spec(endpoint, datasource, download) ==
    LET url == generate_esi_endpoint(endpoint, datasource)
        got == requests_get(url, download)
        status == raise_for_status(url, download)
        parsed == json_loads(download.body)
        cause == IF got.exc # "none" THEN got
                 ELSE IF status.exc # "none" THEN status
                 ELSE parsed
    IN  IF cause.exc # "none"
        THEN [exc |-> "ESIError", msg |-> cause.msg, cause |-> cause.exc]
        ELSE [exc |-> "none", msg |-> "", cause |-> "none"]

\* ESIClient.get_client: the client is constructed only with a downloaded
\* description, and its adapter is given the cache
get_client(endpoint, datasource, cache, download) ==
    LET spec == get_swagger_spec(endpoint, datasource, download)
    IN  /\ last' = [Idle EXCEPT !.op = "get_client",
                                !.kwargs = {endpoint, datasource},
                                !.data = cache,
                                !.resp = download,
                                !.outcome = IF spec.exc = "none" THEN "client" ELSE "raise",
                                !.exc = spec.exc,
                                !.msg = spec.msg]
        /\ http_cache' = IF spec.exc = "none" THEN cache ELSE http_cache
        /\ UNCHANGED <<hashseed, env, caches, it, sent, yielded, ka, kb, kout>>

BootInit ==
    /\ hashseed = 0
    /\ env = AnyServer
    /\ http_cache = 0
    /\ caches = [c \in CacheIds |-> EmptyCache]
    /\ it = NoIter
    /\ sent = 0
    /\ last = Idle
    /\ yielded = <<>>
    /\ ka = NoIter
    /\ kb = NoIter
    /\ kout = <<>>

GetClient ==
    \E endpoint \in Endpoints, datasource \in Datasources,
       cache \in {0} \cup CacheIds, download \in Downloads :
        get_client(endpoint, datasource, cache, download)

BootNext == GetClient

SpecBoot == BootInit /\ [][BootNext]_vars

----------------------------------------------------------------------------
(* The cache key as a function: _get_cache_key applied to two iterators *)

KeyIterators ==
    {[operation |-> 1,
      request |-> [url |-> <<7, u>>, params |-> [q |-> 1, page |-> pp],
                   auth |-> a, headers |-> h, method |-> m],
      session |-> Session("A"),
      page |-> p, num_pages |-> n, stop |-> FALSE, cache |-> 1] :
        u \in 1..2, pp \in 0..1, a \in {None, "basic"}, h \in 0..1,
        m \in {"GET", "POST"}, p \in 1..MaxPages, n \in {1, MaxPages}}

KeyInit ==
    /\ hashseed \in Seeds
    /\ env = AnyServer
    /\ http_cache = 0
    /\ caches = [c \in CacheIds |-> EmptyCache]
    /\ it = NoIter
    /\ sent = 0
    /\ last = Idle
    /\ yielded = <<>>
    /\ ka \in KeyIterators
    /\ kb \in KeyIterators
    /\ kout = <<>>

ComputeKeys ==
    /\ kout = <<>>
    /\ kout' = <<get_cache_key(hashseed, ka), get_cache_key(hashseed, kb)>>
    /\ UNCHANGED <<hashseed, env, http_cache, caches, it, sent, last, yielded, ka, kb>>

KeyNext == ComputeKeys

SpecKey == KeyInit /\ [][KeyNext]_vars

----------------------------------------------------------------------------
(* Vocabulary of the properties *)

OperationOf(id) == CHOOSE o \in Operations : o.operation_id = id

HasHeader(resp, name) == \E h \in resp.headers : h[1] = name

\* the last handler issued a request and got this status
Answered(status) == last.net >= 1 /\ last.resp.status = status

\* the last handler was a call that reached the transport adapter's request()
ReachedRequest ==
    /\ last.op = "call"
    /\ last.exc \notin {"SwaggerMappingError", "ESIAuthorizationError"}

\* every result the iterator has returned carried the total page count n
Steady(n) == \A i \in 1..Len(yielded) : yielded[i].num_pages = n

AtLeastOne(n) == IF n < 1 THEN 1 ELSE n

\* the key and the cache of the fetch an advance of the iterator makes
AdvanceKey == get_cache_key(hashseed, [it EXCEPT !.request.params.page = it.page])

\* the key of the single fetch made by a call of a single-page operation
CallKey(id, token) ==
    get_cache_key(hashseed,
                  NewIterator(OperationOf(id),
                              construct_request(OperationOf(id), {"q"}).request,
                              Session(token), http_cache))

----------------------------------------------------------------------------
(* C1: for an operation that requires authorization, every call without a
   token ends in ESIAuthorizationError and issues no network request,
   whatever the other keyword arguments are. *)
C1Claim ==
    (last.op = "call" /\ require_authorization(OperationOf(last.operation))
        /\ last.token = None)
    => (last.exc = "ESIAuthorizationError" /\ last.net = 0)

(* C2 as stated: an exhausted iterator has returned exactly num_pages
   results, for the pages 1..num_pages in order, for every page count the
   header can report. *)
C2Claim ==
    (it # NoIter /\ it.stop)
    => /\ Len(yielded) = it.num_pages
       /\ \A i \in 1..Len(yielded) : yielded[i].page = i

(* C2 amended: when every result carries the same total page count n, the
   iterator returns the pages 1, 2, ... in order, it is exhausted exactly
   when it has returned n results (one result when n is below 1), and an
   advance raises end-of-sequence only then. *)
C2Theorem ==
    it # NoIter =>
        /\ \A i \in 1..Len(yielded) : yielded[i].page = i
        /\ it.stop => Len(yielded) >= 1
        /\ \A n \in 0..(MaxPages + 1) :
            (Steady(n) /\ Len(yielded) >= 1) =>
                /\ Len(yielded) <= AtLeastOne(n)
                /\ it.stop <=> (Len(yielded) = AtLeastOne(n))
        /\ (last.op = "next" /\ last.exc = "StopIteration") => it.stop
        /\ (last.op = "next" /\ it.stop /\ last.exc # "StopIteration")
            => last.outcome = "value"

C2Witness ==
    /\ it # NoIter /\ it.stop
    /\ Len(yielded) = 2 /\ Steady(2)
    /\ last.op = "next" /\ last.exc = "StopIteration"

(* C3: with a cache, a live fetch whose response has a valid Expires header
   stores (payload, page count) under the request's key, and a fetch whose
   key is in the cache issues no network request, returns the stored payload
   and sets num_pages to the stored page count. *)
C3Theorem ==
    [][/\ (last'.op = "next" /\ it # NoIter /\ ~it.stop /\ it.cache # 0) =>
            /\ AdvanceKey \in DOMAIN caches[it.cache] =>
                  /\ sent' = sent
                  /\ last'.exc = "none"
                  /\ last'.data = caches[it.cache][AdvanceKey].data
                  /\ it'.num_pages = caches[it.cache][AdvanceKey].num_pages
                  /\ caches' = caches
            /\ (last'.net = 1 /\ last'.exc = "none") =>
                  /\ AdvanceKey \in DOMAIN caches'[it.cache]
                  /\ caches'[it.cache][AdvanceKey].data = last'.data
                  /\ caches'[it.cache][AdvanceKey].num_pages = it'.num_pages
       /\ (last'.op = "call" /\ last'.fetches = 1 /\ http_cache # 0) =>
            /\ CallKey(last'.operation, last'.token) \in DOMAIN caches[http_cache] =>
                  /\ sent' = sent
                  /\ last'.outcome = "value"
                  /\ last'.data =
                        caches[http_cache][CallKey(last'.operation, last'.token)].data
                  /\ caches' = caches
            /\ (last'.net = 1 /\ last'.exc = "none") =>
                  /\ CallKey(last'.operation, last'.token) \in DOMAIN caches'[http_cache]
                  /\ caches'[http_cache][CallKey(last'.operation, last'.token)].data
                        = last'.data
      ]_vars

C3Witness ==
    /\ last.op = "next" /\ last.hit /\ last.net = 0
    /\ last.outcome = "value" /\ sent >= 1

(* C4: a 403 response to any page fetch, in a call of a single-page
   operation or in an advance of an iterator, reaches the caller as
   ESIForbidden with the message 'Access denied'. *)
C4Claim ==
    Answered(403) => (last.exc = "ESIForbidden" /\ last.msg = "Access denied")

(* C5 as stated: two requests get the same cache key exactly when their
   (URL, params, auth, headers, method, page) tuples are identical. *)
C5Claim ==
    kout # <<>> => ((KeyTuple(ka) = KeyTuple(kb)) <=> (kout[1] = kout[2]))

(* C5 amended: the cache key depends on the iterator only through the tuple
   (URL, params, auth, headers, method, page): two iterators with identical
   tuples get the same key, whatever their other fields are. *)
C5Theorem ==
    kout # <<>> => ((KeyTuple(ka) = KeyTuple(kb)) => (kout[1] = kout[2]))

C5Witness ==
    /\ kout # <<>>
    /\ ka # kb
    /\ KeyTuple(ka) = KeyTuple(kb)
    /\ kout[1] = kout[2]

(* C6: after a live page fetch the iterator's page count is the integer in
   the X-Pages header, and 1 when the header is absent or is not an integer;
   an absent or unparseable X-Pages never makes the fetch fail. *)
C6Claim ==
    (last.op = "next" /\ Answered(200)) =>
        LET text == HeaderGet(last.resp.headers, "x-pages", NoText)
        IN  IF int(text).exc = "none"
            THEN it.num_pages = int(text).value
            ELSE it.num_pages = 1 /\ last.exc # "ValueError"

(* C7: request() for an operation that declares a page parameter issues no
   network request and returns an iterator with page = 1 and stop = false;
   for any other operation it makes exactly one page fetch, with at most one
   network request, and returns that fetch's value, never an iterator. *)
C7Theorem ==
    ReachedRequest =>
        IF paginated(OperationOf(last.operation))
        THEN /\ last.outcome = "iterator"
             /\ last.net = 0 /\ last.fetches = 0
             /\ it # NoIter /\ it.page = 1 /\ ~it.stop
             /\ it.operation = last.operation
        ELSE /\ last.outcome \in {"value", "raise"}
             /\ last.fetches = 1 /\ last.net <= 1
             /\ (last.outcome = "value" /\ last.net = 1)
                    => last.data = last.resp.text.value

C7Witness ==
    /\ ReachedRequest
    /\ ~paginated(OperationOf(last.operation))
    /\ last.outcome = "value" /\ last.net = 1

(* C8: a 404 response always reaches the caller as ESINotFound, with the
   message M when the body is the JSON object {"error": M}. *)
C8Claim ==
    Answered(404) =>
        /\ last.exc = "ESINotFound"
        /\ last.resp.text.kind = "obj" => last.msg = last.resp.text.error

(* C9: with a cache, a live response without an Expires header leaves the
   cache contents as they were before the fetch. *)
C9Theorem ==
    [][(last'.net >= 1 /\ ~HasHeader(last'.resp, "expires")) => caches' = caches]_vars

C9Witness ==
    /\ last.op = "next" /\ it # NoIter /\ it.cache # 0
    /\ Answered(200) /\ ~HasHeader(last.resp, "expires")
    /\ last.exc = "TypeError"

(* C10: a call of a single-page operation and an advance of an iterator
   issue at most one network request each, also when the request ends in an
   error. *)
C10Theorem ==
    [][sent' <= sent + 1 /\ last'.net <= 1]_vars

C10Witness ==
    /\ last.net = 1
    /\ last.exc \in {"ESIError", "ESINotFound", "ESIForbidden"}
    /\ sent = 1

(* C11: the client's cache property reads the adapter's current cache; an
   iterator created by a call uses the cache the adapter holds at that
   moment, and keeps using that cache for every later advance, whatever is
   assigned to the property afterwards. *)
C11Theorem ==
    [][/\ last'.op = "set_cache" =>
            /\ client_cache' = last'.data
            /\ it' = it /\ caches' = caches
       /\ (last'.op = "call" /\ last'.outcome = "iterator") =>
            it'.cache = client_cache
       /\ last'.op = "next" =>
            /\ it'.cache = it.cache
            /\ \A c \in CacheIds \ {it.cache} : caches'[c] = caches[c]
            /\ it.cache = 0 => caches' = caches
            /\ ~it.stop =>
                  (last'.hit <=>
                     (it.cache # 0 /\ AdvanceKey \in DOMAIN caches[it.cache]))
            /\ (last'.net >= 1 /\ last'.exc = "none" /\ it.cache # 0) =>
                  AdvanceKey \in DOMAIN caches'[it.cache]
      ]_vars

C11Witness ==
    /\ last.op = "next" /\ last.hit
    /\ it.cache # 0 /\ client_cache = 0

(* C12: every failure of the download of the API description (no response,
   a status outside 200..299, or a body that is not JSON) makes get_client
   raise ESIError with the text of the cause, and no client is constructed. *)
C12Claim ==
    (last.op = "get_client"
        /\ (last.resp.net # "ok" \/ last.resp.status \notin 200..299
                \/ last.resp.body # "spec"))
    => /\ last.outcome = "raise"
       /\ last.exc = "ESIError"
       /\ last.msg # ""

(* C13: an iterator driven through its advance has page >= 1; a successful
   advance raises page by exactly 1; stop is true only if page > num_pages;
   and stop is absorbing: the iterator never leaves it, and every advance of
   a stopped iterator raises end-of-sequence without a network request,
   without reading the cache and without changing the iterator. *)
C13Theorem ==
    [][/\ it' # NoIter =>
            /\ it'.page >= 1
            /\ it'.stop => it'.page > it'.num_pages
       /\ last'.op = "next" =>
            /\ last'.outcome = "value" => it'.page = it.page + 1
            /\ last'.outcome = "raise" => it'.page = it.page
            /\ ~it.stop => last'.exc # "StopIteration"
            /\ it.stop =>
                  /\ last'.exc = "StopIteration"
                  /\ last'.net = 0 /\ last'.fetches = 0 /\ ~last'.hit
                  /\ sent' = sent /\ caches' = caches
                  /\ it' = it
       /\ (it # NoIter /\ it.stop /\ last'.op # "call") => it' = it
      ]_vars

C13Witness ==
    /\ last.op = "next" /\ last.exc = "StopIteration"
    /\ it.stop /\ it.page = MaxPages + 1 /\ it.num_pages = MaxPages
    /\ Len(yielded) = MaxPages

(* C15: an advance that fails (HTTP error, unparseable X-Pages, or missing
   Expires while caching) leaves page and stop as they were and returns
   nothing; every advance asks for the iterator's current page, so the next
   advance asks for the same page again, and the results returned are the
   pages 1, 2, ... with none skipped or repeated. *)
C15Theorem ==
    [][(last'.op = "next" /\ ~it.stop) =>
            /\ it'.request.params.page = it.page
            /\ last'.outcome = "raise" =>
                  /\ it'.page = it.page
                  /\ it'.stop = it.stop
                  /\ yielded' = yielded
            /\ \A i \in 1..Len(yielded') : yielded'[i].page = i
            /\ Len(yielded') = it'.page - 1
      ]_vars

C15Witness ==
    /\ last.op = "next" /\ last.outcome = "raise"
    /\ last.exc \in {"HTTPNotFound", "ValueError", "TypeError"}
    /\ Len(yielded) = 1 /\ it.page = 2 /\ ~it.stop

(* C14: with a shared cache, when a call made with one bearer token has
   fetched and cached a payload, a call of the same operation with the same
   parameters made with another bearer token is not served from the cache:
   the two calls have different cache keys. *)
C14Claim ==
    [][(/\ last.op = "call" /\ last.net = 1 /\ last.outcome = "value"
        /\ http_cache # 0
        /\ last'.op = "call" /\ last'.fetches = 1
        /\ last'.operation = last.operation /\ last'.kwargs = last.kwargs
        /\ last.token \notin {None, ""} /\ last'.token \notin {None, ""}
        /\ last'.token # last.token)
       => /\ CallKey(last.operation, last.token)
                # CallKey(last'.operation, last'.token)
          /\ ~last'.hit
      ]_vars

(* C16: for an operation that requires authorization, every network request
   that is issued carries the header Authorization: Bearer <token> with the
   token the caller passed; no token passes the invoker's check and yet
   gives a request without the header. *)
C16Claim ==
    (last.net >= 1 /\ last.op \in {"call", "next"}
        /\ require_authorization(OperationOf(last.operation)))
    => /\ last.authorization # ""
       /\ last.op = "call" => last.authorization = "Bearer " \o last.token

\* what result() gives for the iterator's current page when the iterator has
\* no cache and the steady server is asked
UncachedResult ==
    result(hashseed,
           [it EXCEPT !.request.params.page = it.page, !.cache = 0],
           EmptyCache,
           SteadyResponse(env.xpages, it.request.url, it.page))

(* C17: against a server that answers every (request, page) the same way
   each time, with a valid Expires header, every advance of an iterator,
   whatever its cache holds, ends as the advance of the same iterator without
   a cache: same payload or same error, same page, page count and stop; so
   the sequences of payloads are the same, and of the same length. *)
C17Theorem ==
    [][(last'.op = "next" /\ ~it.stop) =>
            /\ last'.exc = UncachedResult.exc
            /\ last'.data = UncachedResult.data
            /\ it'.num_pages = UncachedResult.num_pages
            /\ it'.page = IF UncachedResult.exc = "none" THEN it.page + 1 ELSE it.page
            /\ it'.stop = (UncachedResult.exc = "none"
                            /\ stop_after(it.page + 1, UncachedResult.num_pages))
            /\ Len(yielded') =
                  Len(yielded) + (IF UncachedResult.exc = "none" THEN 1 ELSE 0)
      ]_vars

C17Witness ==
    /\ env.server = "steady"
    /\ last.op = "next" /\ last.hit /\ last.outcome = "value"
    /\ it.cache # 0 /\ it.stop
    /\ Len(yielded) = MaxPages /\ sent = MaxPages

====
